---- MODULE Spec2Model ----
(***************************************************************************)
(* Two CRUD back ends over one table each: the task tracker of             *)
(* scenario-1 (table "tasks") and the expense report of scenario-2 (table  *)
(* "expenses").  They are separate applications with separate stores, so   *)
(* a behaviour is a run of one of them; the variable scenario says which.  *)
(*                                                                         *)
(* Text is a sequence of one-character strings.  An optional value is a    *)
(* sequence of length at most one: <<>> is None/NULL and <<v>> is v.  A    *)
(* request body is a function from the names of the fields it supplies     *)
(* (non-null) to their values.  Timestamps and dates are integers in days; *)
(* amounts are integers in cents.                                          *)
(***************************************************************************)
EXTENDS Integers, Sequences, FiniteSets, TLC

VARIABLES
    scenario,   \* 1: the task tracker runs, 2: the expense report runs
    tasks,      \* the rows of table tasks, in rowid order
    expenses,   \* the rows of table expenses, in rowid order
    now,        \* what datetime.utcnow() returns to the next request
    req,        \* the last request
    resp,       \* the response to it
    sessions    \* the sessions of the requests in flight between their read
                \* and their commit: what each loaded and what it assigned

vars == <<scenario, tasks, expenses, now, req, resp, sessions>>

----------------------------------------------------------------------------
(* Bounds of the model.                                                    *)

\* Number of write requests in a behaviour (each advances the clock by one).
MaxClock == 3

\* Largest page number and largest limit a listing request asks for.
MaxPage == 3
MaxLimit == 3

\* Largest number of tasks in a store handed to the statistics endpoint.
MaxStatTasks == 40

\* Largest number of expenses in a dataset handed to the summary endpoint.
MaxSummaryRows == 3

----------------------------------------------------------------------------
(* Optional values.                                                        *)

None == <<>>

Some(v) == <<v>>

Has(p, f) == f \in DOMAIN p

\* The request body with no field.  A body is the record of its fields that
\* are not null: a field sent as null and a field not sent both leave the
\* schema's default, None.
NoFields == [f \in {} |-> None]

----------------------------------------------------------------------------
(* Text.                                                                   *)

UpperCase ==
    <<"A", "B", "C", "D", "E", "F", "G", "H", "I", "J", "K", "L", "M",
      "N", "O", "P", "Q", "R", "S", "T", "U", "V", "W", "X", "Y", "Z">>

LowerCase ==
    <<"a", "b", "c", "d", "e", "f", "g", "h", "i", "j", "k", "l", "m",
      "n", "o", "p", "q", "r", "s", "t", "u", "v", "w", "x", "y", "z">>

\* The characters of the model in code-point order (str comparison order).
CodeOrder ==
    <<" ", "%", ",", "-", "/", "0", "1", "2", "3", "4", "5", "6", "7", "8", "9">>
    \o UpperCase \o <<"_">> \o LowerCase

CodeRank(c) == CHOOSE i \in 1..Len(CodeOrder) : CodeOrder[i] = c

\* str < str: lexicographic by code point.
RECURSIVE StrLess(_, _)
StrLess(a, b) ==
    IF b = <<>> THEN FALSE
    ELSE IF a = <<>> THEN TRUE
    ELSE IF Head(a) = Head(b) THEN StrLess(Tail(a), Tail(b))
    ELSE CodeRank(Head(a)) < CodeRank(Head(b))

\* str.lower() on one character.
LowerChar(c) ==
    IF \E i \in 1..Len(UpperCase) : UpperCase[i] = c
    THEN LowerCase[CHOOSE i \in 1..Len(UpperCase) : UpperCase[i] = c]
    ELSE c

LowerOf == [c \in {CodeOrder[i] : i \in 1..Len(CodeOrder)} |-> LowerChar(c)]

Lower(s) == [i \in 1..Len(s) |-> LowerOf[s[i]]]

IsSpace(c) == c = " "

RECURSIVE LStrip(_)
LStrip(s) == IF s # <<>> /\ IsSpace(Head(s)) THEN LStrip(Tail(s)) ELSE s

RECURSIVE RStrip(_)
RStrip(s) ==
    IF s # <<>> /\ IsSpace(s[Len(s)]) THEN RStrip(SubSeq(s, 1, Len(s) - 1)) ELSE s

\* str.strip()
Strip(s) == RStrip(LStrip(s))

\* SQL LIKE without an ESCAPE clause: % matches any run of characters, _ any
\* one character, every other character itself.  LikeFrom says that the text
\* from place i on matches the pattern from place j on.
RECURSIVE LikeFrom(_, _, _, _)
LikeFrom(text, pattern, i, j) ==
    IF j > Len(pattern) THEN i > Len(text)
    ELSE IF pattern[j] = "%"
         THEN \E k \in i..(Len(text) + 1) : LikeFrom(text, pattern, k, j + 1)
    ELSE IF i > Len(text) THEN FALSE
    ELSE /\ pattern[j] = "_" \/ pattern[j] = text[i]
         /\ LikeFrom(text, pattern, i + 1, j + 1)

Like(text, pattern) == LikeFrom(text, pattern, 1, 1)

\* column.ilike(pattern): lower(column) LIKE lower(pattern).
ILike(text, pattern) == Like(Lower(text), Lower(pattern))

----------------------------------------------------------------------------
(* The task tracker: schemas.                                              *)

TaskStatus == {"pending", "in_progress", "completed"}

TaskPriority == {"low", "medium", "high"}

MaxTitleLen == 200

MaxDescriptionLen == 5000

\* A row of table tasks.
Task(id, title, description, status, priority, created_at, completed_at) ==
    [id |-> id, title |-> title, description |-> description, status |-> status,
     priority |-> priority, created_at |-> created_at, completed_at |-> completed_at]

\* TaskCreate accepts the body: the field constraints, then the validators.
ValidTaskCreate(p) ==
    /\ Has(p, "title")
    /\ Len(p.title) >= 1
    /\ Len(p.title) <= MaxTitleLen
    /\ Strip(p.title) # <<>>
    /\ Has(p, "description") => Len(p.description) <= MaxDescriptionLen
    /\ Has(p, "priority") => p.priority \in TaskPriority

\* The TaskCreate object built from an accepted body.
TaskCreate(p) ==
    [title |-> Strip(p.title),
     description |-> IF Has(p, "description") THEN Strip(p.description) ELSE <<>>,
     priority |-> IF Has(p, "priority") THEN p.priority ELSE "medium"]

ensure_payload_has_update(p) ==
    ~ (\A f \in {"title", "description", "status", "priority"} : ~ Has(p, f))

\* TaskUpdate accepts the body.
ValidTaskUpdate(p) ==
    /\ Has(p, "title") =>
          /\ Len(p.title) >= 1
          /\ Len(p.title) <= MaxTitleLen
          /\ Strip(p.title) # <<>>
    /\ Has(p, "description") => Len(p.description) <= MaxDescriptionLen
    /\ Has(p, "status") => p.status \in TaskStatus
    /\ Has(p, "priority") => p.priority \in TaskPriority
    /\ ensure_payload_has_update(p)

\* The TaskUpdate object built from an accepted body: fields not supplied are
\* None.
TaskUpdate(p) ==
    [title |-> IF Has(p, "title") THEN Some(Strip(p.title)) ELSE None,
     description |-> IF Has(p, "description") THEN Some(Strip(p.description)) ELSE None,
     status |-> IF Has(p, "status") THEN Some(p.status) ELSE None,
     priority |-> IF Has(p, "priority") THEN Some(p.priority) ELSE None]

----------------------------------------------------------------------------
(* The store: a table is the sequence of its rows in rowid order.          *)

Ids(rows) == {rows[i].id : i \in 1..Len(rows)}

\* query.filter(id == x).first(): the row's position, 0 when there is none.
Find(rows, id) ==
    IF id \in Ids(rows) THEN CHOOSE i \in 1..Len(rows) : rows[i].id = id ELSE 0

\* A faulty id rule: the number of rows plus one.
NextIdByCount(rows) == Len(rows) + 1

\* The id an INTEGER PRIMARY KEY column gives a new row: one more than the
\* largest rowid in the table, 1 in an empty table.
NextId(rows) == IF rows = <<>> THEN 1 ELSE rows[Len(rows)].id + 1

\* db.add(row)
Add(rows, row) == Append(rows, row)

\* A faulty delete: the last row goes, whichever row was asked for.
RemoveLast(rows, i) == SubSeq(rows, 1, Len(rows) - 1)

\* db.delete(row)
Remove(rows, i) == SubSeq(rows, 1, i - 1) \o SubSeq(rows, i + 1, Len(rows))

\* A faulty rollback: what the session staged reaches the table.
RollbackKeepsStaged(persisted, staged) == staged

\* db.rollback(): what the session staged is dropped.
Rollback(persisted, staged) == persisted

\* db.commit() that succeeds: what the session staged becomes the table.
Commit(persisted, staged) == staged

\* What became of the handler's db.commit(): "none" when the handler returned
\* before it, "failed" when the store raised SQLAlchemyError.
CommitOutcome(reached, ok) ==
    IF ~ reached THEN "none" ELSE IF ok THEN "ok" ELSE "failed"

\* HTTPException(status_code, detail)
HTTPException(code, detail) == [code |-> code, detail |-> detail]

\* The 422 answer of request validation.
ValidationError == [code |-> 422, detail |-> "validation error"]

----------------------------------------------------------------------------
(* The task tracker: write handlers.                                       *)

\* The row create_task builds (its id is assigned at commit).
NewTask(rows, c, t) ==
    Task(NextId(rows), c.title, c.description, "pending", c.priority, t, None)

\* The update of the earliest revision: completed_at is set on completion and
\* never cleared.
ApplyTaskUpdateNoClear(task, u, t) ==
    LET t1 == IF u.title # None THEN [task EXCEPT !.title = u.title[1]] ELSE task
        t2 == IF u.description # None
              THEN [t1 EXCEPT !.description = u.description[1]] ELSE t1
        t3 == IF u.status # None
              THEN [t2 EXCEPT !.status = u.status[1],
                              !.completed_at = IF u.status[1] = "completed"
                                               THEN Some(t) ELSE @]
              ELSE t2
    IN  IF u.priority # None THEN [t3 EXCEPT !.priority = u.priority[1]] ELSE t3

\* An update that stamps completed_at only when the status changes to
\* completed: a task that is completed already keeps its old stamp.
ApplyTaskUpdateOnTransition(task, u, t) ==
    LET t1 == IF u.title # None THEN [task EXCEPT !.title = u.title[1]] ELSE task
        t2 == IF u.description # None
              THEN [t1 EXCEPT !.description = u.description[1]] ELSE t1
        t3 == IF u.status # None
              THEN [t2 EXCEPT !.status = u.status[1],
                              !.completed_at =
                                  IF u.status[1] # "completed" THEN None
                                  ELSE IF task.status = "completed" THEN @
                                  ELSE Some(t)]
              ELSE t2
    IN  IF u.priority # None THEN [t3 EXCEPT !.priority = u.priority[1]] ELSE t3

\* The assignments of update_task to the row it read.
ApplyTaskUpdate(task, u, t) ==
    LET t1 == IF u.title # None THEN [task EXCEPT !.title = u.title[1]] ELSE task
        t2 == IF u.description # None
              THEN [t1 EXCEPT !.description = u.description[1]] ELSE t1
        t3 == IF u.status # None
              THEN [t2 EXCEPT !.status = u.status[1],
                              !.completed_at = IF u.status[1] = "completed"
                                               THEN Some(t) ELSE None]
              ELSE t2
    IN  IF u.priority # None THEN [t3 EXCEPT !.priority = u.priority[1]] ELSE t3

\* POST /api/tasks
create_task(p, ok) ==
    /\ scenario = 1
    /\ now < MaxClock
    /\ req' = [op |-> "create_task", payload |-> p,
               commit |-> CommitOutcome(ValidTaskCreate(p), ok)]
    /\ now' = now + 1
    /\ UNCHANGED <<scenario, expenses, sessions>>
    /\ IF ~ ValidTaskCreate(p)
       THEN /\ resp' = ValidationError
            /\ UNCHANGED tasks
       ELSE LET db_task == NewTask(tasks, TaskCreate(p), now)
                staged == Add(tasks, db_task)
            IN  IF ok
                THEN /\ tasks' = Commit(tasks, staged)
                     /\ resp' = [code |-> 201, body |-> db_task]
                ELSE /\ tasks' = Rollback(tasks, staged)
                     /\ resp' = HTTPException(500, "Failed to create task")

\* GET /api/tasks/{task_id}
get_task(task_id) ==
    /\ scenario = 1
    /\ req' = [op |-> "get_task", id |-> task_id]
    /\ UNCHANGED <<scenario, tasks, expenses, now, sessions>>
    /\ IF task_id <= 0
       THEN resp' = ValidationError
       ELSE IF Find(tasks, task_id) = 0
       THEN resp' = HTTPException(404, "Task not found")
       ELSE resp' = [code |-> 200, body |-> tasks[Find(tasks, task_id)]]

\* PATCH /api/tasks/{task_id}
update_task(task_id, p, ok) ==
    /\ scenario = 1
    /\ now < MaxClock
    /\ req' = [op |-> "update_task", id |-> task_id, payload |-> p,
               commit |-> CommitOutcome(/\ task_id > 0
                                        /\ ValidTaskUpdate(p)
                                        /\ Find(tasks, task_id) # 0, ok)]
    /\ now' = now + 1
    /\ UNCHANGED <<scenario, expenses, sessions>>
    /\ IF task_id <= 0 \/ ~ ValidTaskUpdate(p)
       THEN /\ resp' = ValidationError
            /\ UNCHANGED tasks
       ELSE IF Find(tasks, task_id) = 0
       THEN /\ resp' = HTTPException(404, "Task not found")
            /\ UNCHANGED tasks
       ELSE LET i == Find(tasks, task_id)
                task == ApplyTaskUpdate(tasks[i], TaskUpdate(p), now)
                staged == [tasks EXCEPT ![i] = task]
            IN  IF ok
                THEN /\ tasks' = Commit(tasks, staged)
                     /\ resp' = [code |-> 200, body |-> task]
                ELSE /\ tasks' = Rollback(tasks, staged)
                     /\ resp' = HTTPException(500, "Failed to update task")

\* DELETE /api/tasks/{task_id}
delete_task(task_id, ok) ==
    /\ scenario = 1
    /\ now < MaxClock
    /\ req' = [op |-> "delete_task", id |-> task_id,
               commit |-> CommitOutcome(task_id > 0 /\ Find(tasks, task_id) # 0, ok)]
    /\ now' = now + 1
    /\ UNCHANGED <<scenario, expenses, sessions>>
    /\ IF task_id <= 0
       THEN /\ resp' = ValidationError
            /\ UNCHANGED tasks
       ELSE IF Find(tasks, task_id) = 0
       THEN /\ resp' = HTTPException(404, "Task not found")
            /\ UNCHANGED tasks
       ELSE LET staged == Remove(tasks, Find(tasks, task_id))
            IN  IF ok
                THEN /\ tasks' = Commit(tasks, staged)
                     /\ resp' = [code |-> 204]
                ELSE /\ tasks' = Rollback(tasks, staged)
                     /\ resp' = HTTPException(500, "Failed to delete task")

----------------------------------------------------------------------------
(* Python float arithmetic: IEEE 754 binary64, round to nearest, ties to    *)
(* even.  A positive float is [m |-> bits, e |-> exponent]: bits are the   *)
(* 53 bits of its significand, first bit 1, and its value is bits * 2^e.   *)
(* Zero has no bits.                                                       *)

SignificandBits == 53

Front(s) == SubSeq(s, 1, Len(s) - 1)

Last(s) == s[Len(s)]

Zeros(n) == [i \in 1..n |-> 0]

RECURSIVE IntToBits(_)
IntToBits(n) == IF n = 0 THEN <<>> ELSE IntToBits(n \div 2) \o <<n % 2>>

RECURSIVE BitsToInt(_)
BitsToInt(b) == IF b = <<>> THEN 0 ELSE 2 * BitsToInt(Front(b)) + Last(b)

RECURSIVE StripZeros(_)
StripZeros(b) == IF b # <<>> /\ Head(b) = 0 THEN StripZeros(Tail(b)) ELSE b

\* a + b on bit sequences: bit i of the sum is a[i] + b[i] plus the carry
\* into place i, which is 1 when some lower place j makes a carry (both bits
\* 1) and every place between passes it on (one bit 1).
AddBits(a, b) ==
    LET n == (IF Len(a) > Len(b) THEN Len(a) ELSE Len(b)) + 1
        x == Zeros(n - Len(a)) \o a
        y == Zeros(n - Len(b)) \o b
        carry == [i \in 1..n |->
                    IF \E j \in (i + 1)..n :
                          /\ x[j] + y[j] = 2
                          /\ \A k \in (i + 1)..(j - 1) : x[k] + y[k] >= 1
                    THEN 1 ELSE 0]
        sum == [i \in 1..n |-> (x[i] + y[i] + carry[i]) % 2]
    IN  IF sum[1] = 0 THEN Tail(sum) ELSE sum

\* a * b on bit sequences, b without leading zeros.
RECURSIVE MulBits(_, _)
MulBits(a, b) ==
    IF b = <<>> THEN <<>>
    ELSE LET high == MulBits(a, Front(b))
         IN  AddBits(IF high = <<>> THEN high ELSE high \o <<0>>,
                     IF Last(b) = 1 THEN a ELSE <<>>)

\* The bits dropped by a rounding against one half of the last kept place:
\* -1 below, 0 exactly half, 1 above.
CmpHalf(dropped) ==
    IF dropped = <<>> \/ Head(dropped) = 0 THEN -1
    ELSE IF \A i \in 2..Len(dropped) : dropped[i] = 0 THEN 0
    ELSE 1

\* Round to nearest, ties to even: kept, plus one when the rest is above
\* half or is half with kept odd.
RoundEven(kept, cmp) ==
    IF cmp = 1 \/ (cmp = 0 /\ kept # <<>> /\ Last(kept) = 1)
    THEN AddBits(kept, <<1>>)
    ELSE kept

\* The float nearest to an exact value whose leading bits are bits * 2^e
\* (bits starts with 1); sticky says that the value has further nonzero bits
\* below them.
ToFloat(bits, e, sticky) ==
    LET n == Len(bits)
        kept == IF n <= SignificandBits
                THEN bits \o Zeros(SignificandBits - n)
                ELSE SubSeq(bits, 1, SignificandBits)
        dropped == IF n <= SignificandBits THEN <<>>
                   ELSE SubSeq(bits, SignificandBits + 1, n)
        half == CmpHalf(dropped)
        r == RoundEven(kept, IF half = 0 /\ sticky THEN 1 ELSE half)
    IN  [m |-> SubSeq(r, 1, SignificandBits),
         e |-> e + (n - SignificandBits) + (Len(r) - SignificandBits)]

FloatZero == [m |-> <<>>, e |-> 0]

\* float(n) for an int n >= 0
IntToFloat(n) == IF n = 0 THEN FloatZero ELSE ToFloat(IntToBits(n), 0, FALSE)

\* The first n bits after the binary point of r / b, for 0 <= r < b.
RECURSIVE FracBits(_, _, _)
FracBits(r, b, n) ==
    IF n = 0 THEN <<>>
    ELSE <<IF 2 * r >= b THEN 1 ELSE 0>> \o FracBits((2 * r) % b, b, n - 1)

\* What is left of r / b after those n bits, as a numerator over b.
RECURSIVE FracRem(_, _, _)
FracRem(r, b, n) == IF n = 0 THEN r ELSE FracRem((2 * r) % b, b, n - 1)

\* The number of zero bits after the binary point of r / b, for 0 < r < b.
RECURSIVE LeadingZeros(_, _)
LeadingZeros(r, b) == IF 2 * r >= b THEN 0 ELSE 1 + LeadingZeros(2 * r, b)

RECURSIVE Pow2(_)
Pow2(n) == IF n = 0 THEN 1 ELSE 2 * Pow2(n - 1)

\* a / b on ints a >= 0, b > 0: the float nearest to the quotient, from its
\* first SignificandBits + 1 significant bits and whether more follow.
TrueDiv(a, b) ==
    IF a = 0 THEN FloatZero
    ELSE LET ip == IntToBits(a \div b)
             z == IF ip = <<>> THEN LeadingZeros(a % b, b) ELSE 0
             r0 == (a % b) * Pow2(z)
             n == SignificandBits + 1 - Len(ip)
         IN  ToFloat(ip \o FracBits(r0, b, n), 0 - (z + n), FracRem(r0, b, n) # 0)

\* bits without its trailing zeros: the same value times a power of two.
RECURSIVE StripTrailingZeros(_)
StripTrailingZeros(b) ==
    IF b # <<>> /\ Last(b) = 0 THEN StripTrailingZeros(Front(b)) ELSE b

\* x * y on floats: the float nearest to the exact product.
FloatMul(x, y) ==
    IF x.m = <<>> \/ y.m = <<>> THEN FloatZero
    ELSE LET a == StripTrailingZeros(x.m)
             b == StripTrailingZeros(y.m)
         IN  ToFloat(MulBits(a, b),
                     x.e + (Len(x.m) - Len(a)) + y.e + (Len(y.m) - Len(b)), FALSE)

\* round(x) on a float x >= 0: the nearest int, ties to even.
PyRound(x) ==
    IF x.m = <<>> THEN 0
    ELSE IF x.e >= 0 THEN BitsToInt(x.m) * Pow2(x.e)
    ELSE LET k == 0 - x.e
             bits == IF k > Len(x.m) THEN Zeros(k - Len(x.m)) \o x.m ELSE x.m
             ip == BitsToInt(SubSeq(bits, 1, Len(bits) - k))
             cmp == CmpHalf(SubSeq(bits, Len(bits) - k + 1, Len(bits)))
         IN  IF cmp = 1 \/ (cmp = 0 /\ ip % 2 = 1) THEN ip + 1 ELSE ip

----------------------------------------------------------------------------
(* The expense report: schemas and write handlers.                         *)

\* A row of table expenses.
Expense(id, title, description, amount, category, status, expense_date, created_at) ==
    [id |-> id, title |-> title, description |-> description, amount |-> amount,
     category |-> category, status |-> status, expense_date |-> expense_date,
     created_at |-> created_at]

\* ExpenseCreate accepts the body: the required fields are there.
ValidExpenseCreate(p) ==
    \A f \in {"title", "amount", "category", "expense_date"} : Has(p, f)

\* The ExpenseCreate object built from an accepted body.
ExpenseCreate(p) ==
    [title |-> p.title,
     description |-> IF Has(p, "description") THEN p.description ELSE <<>>,
     amount |-> p.amount, category |-> p.category, expense_date |-> p.expense_date]

\* The ExpenseUpdate object built from a body: every field is optional and
\* none is constrained.
ExpenseUpdate(p) ==
    [f \in {"title", "description", "amount", "category", "status", "expense_date"} |->
        IF Has(p, f) THEN Some(p[f]) ELSE None]

\* The row create_expense builds (its id is assigned at commit).
NewExpense(rows, c, t) ==
    Expense(NextId(rows), c.title, c.description, c.amount, c.category,
            "pending", c.expense_date, t)

\* A faulty update: a status that is not supplied goes back to the default.
ApplyExpenseUpdateDefaultStatus(expense, u) ==
    [f \in DOMAIN expense |->
        IF f \in DOMAIN u /\ u[f] # None THEN u[f][1]
        ELSE IF f = "status" THEN "pending"
        ELSE expense[f]]

\* The assignments of update_expense to the row it read.
ApplyExpenseUpdate(expense, u) ==
    [f \in DOMAIN expense |->
        IF f \in DOMAIN u /\ u[f] # None THEN u[f][1] ELSE expense[f]]

\* No handler of the expense report catches the error of db.commit(): the
\* framework answers 500 with its own fixed text.
UnhandledError == [code |-> 500, detail |-> "Internal Server Error"]

\* get_db's db.close() as the request ends: a transaction that did not commit
\* is dropped.
Close(persisted, staged) == persisted

\* POST /api/expenses
create_expense(p, ok) ==
    /\ scenario = 2
    /\ now < MaxClock
    /\ req' = [op |-> "create_expense", payload |-> p,
               commit |-> CommitOutcome(ValidExpenseCreate(p), ok)]
    /\ now' = now + 1
    /\ UNCHANGED <<scenario, tasks, sessions>>
    /\ IF ~ ValidExpenseCreate(p)
       THEN /\ resp' = ValidationError
            /\ UNCHANGED expenses
       ELSE LET db_expense == NewExpense(expenses, ExpenseCreate(p), now)
                staged == Add(expenses, db_expense)
            IN  IF ok
                THEN /\ expenses' = Commit(expenses, staged)
                     /\ resp' = [code |-> 201, body |-> db_expense]
                ELSE /\ expenses' = Close(expenses, staged)
                     /\ resp' = UnhandledError

\* GET /api/expenses/{expense_id}
get_expense(expense_id) ==
    /\ scenario = 2
    /\ req' = [op |-> "get_expense", id |-> expense_id]
    /\ UNCHANGED <<scenario, tasks, expenses, now, sessions>>
    /\ IF Find(expenses, expense_id) = 0
       THEN resp' = HTTPException(404, "Expense not found")
       ELSE resp' = [code |-> 200, body |-> expenses[Find(expenses, expense_id)]]

\* PATCH /api/expenses/{expense_id}
update_expense(expense_id, p, ok) ==
    /\ scenario = 2
    /\ now < MaxClock
    /\ req' = [op |-> "update_expense", id |-> expense_id, payload |-> p,
               commit |-> CommitOutcome(Find(expenses, expense_id) # 0, ok)]
    /\ now' = now + 1
    /\ UNCHANGED <<scenario, tasks, sessions>>
    /\ IF Find(expenses, expense_id) = 0
       THEN /\ resp' = HTTPException(404, "Expense not found")
            /\ UNCHANGED expenses
       ELSE LET i == Find(expenses, expense_id)
                expense == ApplyExpenseUpdate(expenses[i], ExpenseUpdate(p))
                staged == [expenses EXCEPT ![i] = expense]
            IN  IF ok
                THEN /\ expenses' = Commit(expenses, staged)
                     /\ resp' = [code |-> 200, body |-> expense]
                ELSE /\ expenses' = Close(expenses, staged)
                     /\ resp' = UnhandledError

\* DELETE /api/expenses/{expense_id}
delete_expense(expense_id, ok) ==
    /\ scenario = 2
    /\ now < MaxClock
    /\ req' = [op |-> "delete_expense", id |-> expense_id,
               commit |-> CommitOutcome(Find(expenses, expense_id) # 0, ok)]
    /\ now' = now + 1
    /\ UNCHANGED <<scenario, tasks, sessions>>
    /\ IF Find(expenses, expense_id) = 0
       THEN /\ resp' = HTTPException(404, "Expense not found")
            /\ UNCHANGED expenses
       ELSE LET staged == Remove(expenses, Find(expenses, expense_id))
            IN  IF ok
                THEN /\ expenses' = Commit(expenses, staged)
                     /\ resp' = [code |-> 204]
                ELSE /\ expenses' = Close(expenses, staged)
                     /\ resp' = UnhandledError

----------------------------------------------------------------------------
(* The task tracker: read handlers.                                        *)

\* func.count(Task.id) of one group of group_by(Task.status)
CountStatus(rows, status) == Cardinality({i \in 1..Len(rows) : rows[i].status = status})

\* round((completed / total) * 100) if total > 0 else 0
CompletionRate(completed, total) ==
    IF total > 0
    THEN PyRound(FloatMul(TrueDiv(completed, total), IntToFloat(100)))
    ELSE 0

\* The TaskStatsResponse of get_task_stats.
TaskStats(rows) ==
    LET completed == CountStatus(rows, "completed")
        in_progress == CountStatus(rows, "in_progress")
        pending == CountStatus(rows, "pending")
        total == completed + in_progress + pending
    IN  [total |-> total, completed |-> completed, in_progress |-> in_progress,
         pending |-> pending, completion_rate |-> CompletionRate(completed, total)]

\* GET /api/tasks/stats
get_task_stats ==
    /\ scenario = 1
    /\ req' = [op |-> "get_task_stats"]
    /\ resp' = [code |-> 200, body |-> TaskStats(tasks)]
    /\ UNCHANGED <<scenario, tasks, expenses, now, sessions>>

\* The pattern list_tasks hands to ilike.
SearchPattern(search) == <<"%">> \o search \o <<"%">>

\* and_(*filters) of list_tasks on one row.
TaskFilter(task, status, priority, search) ==
    /\ status # None => task.status = status[1]
    /\ priority # None => task.priority = priority[1]
    /\ search # None =>
          \/ ILike(task.title, SearchPattern(search[1]))
          \/ ILike(task.description, SearchPattern(search[1]))

\* query.filter(...): the rows that pass, in scan order.
RECURSIVE FilterTasks(_, _, _, _)
FilterTasks(rows, status, priority, search) ==
    IF rows = <<>> THEN <<>>
    ELSE (IF TaskFilter(Head(rows), status, priority, search)
          THEN <<Head(rows)>> ELSE <<>>)
         \o FilterTasks(Tail(rows), status, priority, search)

\* One row put into rows sorted by created_at descending, after the rows
\* that are not older than it.
RECURSIVE InsertByCreatedDesc(_, _)
InsertByCreatedDesc(sorted, row) ==
    IF sorted = <<>> THEN <<row>>
    ELSE IF Head(sorted).created_at >= row.created_at
         THEN <<Head(sorted)>> \o InsertByCreatedDesc(Tail(sorted), row)
    ELSE <<row>> \o sorted

\* order_by(Task.created_at.desc()): rows of one created_at stay in scan order.
RECURSIVE OrderByCreatedDesc(_)
OrderByCreatedDesc(rows) ==
    IF rows = <<>> THEN <<>>
    ELSE InsertByCreatedDesc(OrderByCreatedDesc(Front(rows)), Last(rows))

\* .offset(n).limit(k)
OffsetLimit(rows, n, k) ==
    SubSeq(rows, n + 1, IF n + k < Len(rows) THEN n + k ELSE Len(rows))

MaxSearchLen == 200

MaxLimitParam == 100

\* The query parameters pass validation.
ValidListQuery(status, priority, search, page, limit) ==
    /\ status # None => status[1] \in TaskStatus
    /\ priority # None => priority[1] \in TaskPriority
    /\ search # None => Len(search[1]) >= 1 /\ Len(search[1]) <= MaxSearchLen
    /\ page >= 1
    /\ limit >= 1
    /\ limit <= MaxLimitParam

\* The TaskListResponse of list_tasks.
TaskList(rows, status, priority, search, page, limit) ==
    LET query == FilterTasks(rows, status, priority, search)
    IN  [tasks |-> OffsetLimit(OrderByCreatedDesc(query), (page - 1) * limit, limit),
         total |-> Len(query), page |-> page, limit |-> limit]

\* GET /api/tasks
list_tasks(status, priority, search, page, limit) ==
    /\ scenario = 1
    /\ req' = [op |-> "list_tasks", status |-> status, priority |-> priority,
               search |-> search, page |-> page, limit |-> limit]
    /\ resp' = IF ValidListQuery(status, priority, search, page, limit)
               THEN [code |-> 200,
                     body |-> TaskList(tasks, status, priority, search, page, limit)]
               ELSE ValidationError
    /\ UNCHANGED <<scenario, tasks, expenses, now, sessions>>

----------------------------------------------------------------------------
(* The expense report: the summary.                                        *)

\* One row put into the by_category dict: setdefault, then +=.  The dict is the
\* sequence of its items in insertion order.
AddToCategory(items, exp) ==
    IF \E i \in 1..Len(items) : items[i][1] = exp.category
    THEN [i \in 1..Len(items) |->
            IF items[i][1] = exp.category
            THEN <<items[i][1], items[i][2] + exp.amount>> ELSE items[i]]
    ELSE Append(items, <<exp.category, exp.amount>>)

RECURSIVE ByCategory(_)
ByCategory(rows) ==
    IF rows = <<>> THEN <<>> ELSE AddToCategory(ByCategory(Front(rows)), Last(rows))

\* One item put into items sorted by key.
RECURSIVE InsertByKey(_, _)
InsertByKey(sorted, item) ==
    IF sorted = <<>> THEN <<item>>
    ELSE IF StrLess(item[1], Head(sorted)[1]) THEN <<item>> \o sorted
    ELSE <<Head(sorted)>> \o InsertByKey(Tail(sorted), item)

\* The items as the dict holds them, not sorted.
UnsortedItems(items) == items

\* sorted(by_category.items())
RECURSIVE SortedItems(_)
SortedItems(items) ==
    IF items = <<>> THEN <<>> ELSE InsertByKey(SortedItems(Front(items)), Last(items))

\* sum(e.amount for e in expenses)
RECURSIVE SumAmounts(_)
SumAmounts(rows) == IF rows = <<>> THEN 0 ELSE SumAmounts(Front(rows)) + Last(rows).amount

\* round(v, 2) of an amount: amounts are whole cents.
Round2(v) == v

\* The SummaryResponse of get_summary.
Summary(rows) ==
    [total |-> Round2(SumAmounts(rows)),
     by_category |-> [i \in 1..Len(SortedItems(ByCategory(rows))) |->
                         <<SortedItems(ByCategory(rows))[i][1],
                           Round2(SortedItems(ByCategory(rows))[i][2])>>],
     count |-> Len(rows)]

\* GET /api/expenses/summary
get_summary ==
    /\ scenario = 2
    /\ req' = [op |-> "get_summary"]
    /\ resp' = [code |-> 200, body |-> Summary(expenses)]
    /\ UNCHANGED <<scenario, tasks, expenses, now, sessions>>

----------------------------------------------------------------------------
(* Seed data: the rows startup loads into an empty table.                  *)

\* The rows of seed_tasks, in the order it adds them.
SeedTaskRows(now0) ==
    <<
    [title |-> <<"S", "e", "t", " ", "u", "p", " ", "C", "I", "/", "C", "D", " ", "p", "i", "p", "e", "l",
                "i", "n", "e">>,
     description |-> <<"C", "o", "n", "f", "i", "g", "u", "r", "e", " ", "G", "i", "t", "H", "u", "b", " ", "A",
                      "c", "t", "i", "o", "n", "s", " ", "f", "o", "r", " ", "a", "u", "t",
                      "o", "m", "a", "t", "e", "d", " ", "t", "e", "s", "t", "i", "n", "g",
                      " ", "a", "n", "d", " ", "d", "e", "p", "l", "o", "y", "m", "e", "n",
                      "t">>,
     status |-> "completed", priority |-> "high", created_at |-> now0 - 7, completed_at |-> <<now0 - 5>>],
    [title |-> <<"F", "i", "x", " ", "l", "o", "g", "i", "n", " ", "p", "a", "g", "e", " ", "s", "t", "y",
                "l", "i", "n", "g">>,
     description |-> <<"R", "e", "s", "o", "l", "v", "e", " ", "C", "S", "S", " ", "a", "l", "i", "g", "n", "m",
                      "e", "n", "t", " ", "i", "s", "s", "u", "e", "s", " ", "o", "n", " ",
                      "t", "h", "e", " ", "l", "o", "g", "i", "n", " ", "f", "o", "r", "m">>,
     status |-> "completed", priority |-> "low", created_at |-> now0 - 6, completed_at |-> <<now0 - 4>>],
    [title |-> <<"S", "e", "a", "r", "c", "h", " ", "i", "n", "d", "e", "x", "i", "n", "g", " ", "o", "p",
                "t", "i", "m", "i", "z", "a", "t", "i", "o", "n">>,
     description |-> <<"I", "m", "p", "r", "o", "v", "e", " ", "d", "a", "t", "a", "b", "a", "s", "e", " ", "s",
                      "e", "a", "r", "c", "h", " ", "q", "u", "e", "r", "y", " ", "p", "e",
                      "r", "f", "o", "r", "m", "a", "n", "c", "e", " ", "w", "i", "t", "h",
                      " ", "p", "r", "o", "p", "e", "r", " ", "i", "n", "d", "e", "x", "i",
                      "n", "g">>,
     status |-> "completed", priority |-> "medium", created_at |-> now0 - 5, completed_at |-> <<now0 - 3>>],
    [title |-> <<"I", "m", "p", "l", "e", "m", "e", "n", "t", " ", "u", "s", "e", "r", " ", "s", "e", "a",
                "r", "c", "h", " ", "f", "e", "a", "t", "u", "r", "e">>,
     description |-> <<"A", "d", "d", " ", "a", "b", "i", "l", "i", "t", "y", " ", "t", "o", " ", "s", "e", "a",
                      "r", "c", "h", " ", "u", "s", "e", "r", "s", " ", "b", "y", " ", "n",
                      "a", "m", "e", " ", "a", "n", "d", " ", "e", "m", "a", "i", "l">>,
     status |-> "in_progress", priority |-> "high", created_at |-> now0 - 4, completed_at |-> <<>>],
    [title |-> <<"D", "e", "p", "l", "o", "y", " ", "t", "o", " ", "s", "t", "a", "g", "i", "n", "g", " ",
                "e", "n", "v", "i", "r", "o", "n", "m", "e", "n", "t">>,
     description |-> <<"P", "u", "s", "h", " ", "l", "a", "t", "e", "s", "t", " ", "c", "h", "a", "n", "g", "e",
                      "s", " ", "t", "o", " ", "s", "t", "a", "g", "i", "n", "g", " ", "f",
                      "o", "r", " ", "Q", "A", " ", "t", "e", "s", "t", "i", "n", "g">>,
     status |-> "pending", priority |-> "high", created_at |-> now0 - 3, completed_at |-> <<>>],
    [title |-> <<"W", "r", "i", "t", "e", " ", "A", "P", "I", " ", "d", "o", "c", "u", "m", "e", "n", "t",
                "a", "t", "i", "o", "n">>,
     description |-> <<"D", "o", "c", "u", "m", "e", "n", "t", " ", "a", "l", "l", " ", "R", "E", "S", "T", " ",
                      "e", "n", "d", "p", "o", "i", "n", "t", "s", " ", "w", "i", "t", "h",
                      " ", "r", "e", "q", "u", "e", "s", "t", " ", "a", "n", "d", " ", "r",
                      "e", "s", "p", "o", "n", "s", "e", " ", "e", "x", "a", "m", "p", "l",
                      "e", "s">>,
     status |-> "pending", priority |-> "medium", created_at |-> now0 - 3, completed_at |-> <<>>],
    [title |-> <<"F", "i", "x", " ", "s", "e", "a", "r", "c", "h", " ", "p", "e", "r", "f", "o", "r", "m",
                "a", "n", "c", "e", " ", "i", "s", "s", "u", "e">>,
     description |-> <<"O", "p", "t", "i", "m", "i", "z", "e", " ", "s", "l", "o", "w", " ", "s", "e", "a", "r",
                      "c", "h", " ", "q", "u", "e", "r", "i", "e", "s", " ", "o", "n", " ",
                      "t", "h", "e", " ", "t", "a", "s", "k", "s", " ", "e", "n", "d", "p",
                      "o", "i", "n", "t">>,
     status |-> "in_progress", priority |-> "medium", created_at |-> now0 - 2, completed_at |-> <<>>],
    [title |-> <<"U", "p", "d", "a", "t", "e", " ", "n", "p", "m", " ", "d", "e", "p", "e", "n", "d", "e",
                "n", "c", "i", "e", "s">>,
     description |-> <<"U", "p", "g", "r", "a", "d", "e", " ", "o", "u", "t", "d", "a", "t", "e", "d", " ", "p",
                      "a", "c", "k", "a", "g", "e", "s", " ", "a", "n", "d", " ", "r", "e",
                      "s", "o", "l", "v", "e", " ", "s", "e", "c", "u", "r", "i", "t", "y",
                      " ", "v", "u", "l", "n", "e", "r", "a", "b", "i", "l", "i", "t", "i",
                      "e", "s">>,
     status |-> "pending", priority |-> "low", created_at |-> now0 - 1, completed_at |-> <<>>],
    [title |-> <<"A", "d", "d", " ", "e", "m", "a", "i", "l", " ", "n", "o", "t", "i", "f", "i", "c", "a",
                "t", "i", "o", "n", "s">>,
     description |-> <<"S", "e", "n", "d", " ", "e", "m", "a", "i", "l", " ", "a", "l", "e", "r", "t", "s", " ",
                      "w", "h", "e", "n", " ", "t", "a", "s", "k", " ", "s", "t", "a", "t",
                      "u", "s", " ", "c", "h", "a", "n", "g", "e", "s">>,
     status |-> "pending", priority |-> "medium", created_at |-> now0 - 1, completed_at |-> <<>>],
    [title |-> <<"D", "e", "s", "i", "g", "n", " ", "n", "e", "w", " ", "l", "a", "n", "d", "i", "n", "g",
                " ", "p", "a", "g", "e">>,
     description |-> <<"C", "r", "e", "a", "t", "e", " ", "m", "o", "c", "k", "u", "p", "s", " ", "f", "o", "r",
                      " ", "t", "h", "e", " ", "r", "e", "d", "e", "s", "i", "g", "n", "e",
                      "d", " ", "l", "a", "n", "d", "i", "n", "g", " ", "p", "a", "g", "e">>,
     status |-> "in_progress", priority |-> "low", created_at |-> now0, completed_at |-> <<>>]
    >>

\* The rows of seed_expenses, in the order it adds them.
SeedExpenseRows(now0, today0) ==
    <<
    [title |-> <<"F", "l", "i", "g", "h", "t", " ", "t", "o", " ", "N", "Y", "C">>,
     description |-> <<"R", "o", "u", "n", "d", "-", "t", "r", "i", "p", " ", "f", "l", "i", "g", "h", "t", " ",
                      "f", "o", "r", " ", "c", "l", "i", "e", "n", "t", " ", "m", "e", "e",
                      "t", "i", "n", "g">>,
     amount |-> 45000, category |-> <<"t", "r", "a", "v", "e", "l">>, status |-> "approved",
     expense_date |-> today0 - 13, created_at |-> now0 - 13],
    [title |-> <<"H", "o", "t", "e", "l", " ", "-", " ", "3", " ", "n", "i", "g", "h", "t", "s">>,
     description |-> <<"H", "o", "t", "e", "l", " ", "s", "t", "a", "y", " ", "d", "u", "r", "i", "n", "g", " ",
                      "N", "Y", "C", " ", "c", "l", "i", "e", "n", "t", " ", "v", "i", "s",
                      "i", "t">>,
     amount |-> 78000, category |-> <<"t", "r", "a", "v", "e", "l">>, status |-> "approved",
     expense_date |-> today0 - 12, created_at |-> now0 - 12],
    [title |-> <<"T", "e", "a", "m", " ", "l", "u", "n", "c", "h">>,
     description |-> <<"L", "u", "n", "c", "h", " ", "w", "i", "t", "h", " ", "e", "n", "g", "i", "n", "e", "e",
                      "r", "i", "n", "g", " ", "t", "e", "a", "m">>,
     amount |-> 8550, category |-> <<"m", "e", "a", "l", "s">>, status |-> "approved",
     expense_date |-> today0 - 10, created_at |-> now0 - 10],
    [title |-> <<"O", "f", "f", "i", "c", "e", " ", "s", "u", "p", "p", "l", "i", "e", "s">>,
     description |-> <<"N", "o", "t", "e", "b", "o", "o", "k", "s", ",", " ", "p", "e", "n", "s", ",", " ", "a",
                      "n", "d", " ", "s", "t", "i", "c", "k", "y", " ", "n", "o", "t", "e",
                      "s">>,
     amount |-> 4299, category |-> <<"o", "f", "f", "i", "c", "e">>, status |-> "approved",
     expense_date |-> today0 - 10, created_at |-> now0 - 10],
    [title |-> <<"I", "D", "E", " ", "l", "i", "c", "e", "n", "s", "e", " ", "r", "e", "n", "e", "w", "a",
                "l">>,
     description |-> <<"A", "n", "n", "u", "a", "l", " ", "J", "e", "t", "B", "r", "a", "i", "n", "s", " ", "s",
                      "u", "b", "s", "c", "r", "i", "p", "t", "i", "o", "n">>,
     amount |-> 19900, category |-> <<"s", "o", "f", "t", "w", "a", "r", "e">>, status |-> "approved",
     expense_date |-> today0 - 8, created_at |-> now0 - 8],
    [title |-> <<"T", "a", "x", "i", " ", "t", "o", " ", "a", "i", "r", "p", "o", "r", "t">>,
     description |-> <<"T", "a", "x", "i", " ", "f", "r", "o", "m", " ", "o", "f", "f", "i", "c", "e", " ", "t",
                      "o", " ", "J", "F", "K">>,
     amount |-> 3500, category |-> <<"t", "r", "a", "v", "e", "l">>, status |-> "approved",
     expense_date |-> today0 - 7, created_at |-> now0 - 7],
    [title |-> <<"C", "l", "i", "e", "n", "t", " ", "d", "i", "n", "n", "e", "r">>,
     description |-> <<"D", "i", "n", "n", "e", "r", " ", "w", "i", "t", "h", " ", "p", "r", "o", "s", "p", "e",
                      "c", "t", "i", "v", "e", " ", "c", "l", "i", "e", "n", "t">>,
     amount |-> 15600, category |-> <<"m", "e", "a", "l", "s">>, status |-> "pending",
     expense_date |-> today0 - 6, created_at |-> now0 - 6],
    [title |-> <<"E", "r", "g", "o", "n", "o", "m", "i", "c", " ", "k", "e", "y", "b", "o", "a", "r", "d">>,
     description |-> <<"M", "e", "c", "h", "a", "n", "i", "c", "a", "l", " ", "k", "e", "y", "b", "o", "a", "r",
                      "d", " ", "f", "o", "r", " ", "w", "o", "r", "k", "s", "t", "a", "t",
                      "i", "o", "n">>,
     amount |-> 8999, category |-> <<"o", "f", "f", "i", "c", "e">>, status |-> "pending",
     expense_date |-> today0 - 5, created_at |-> now0 - 5],
    [title |-> <<"C", "o", "n", "f", "e", "r", "e", "n", "c", "e", " ", "r", "e", "g", "i", "s", "t", "r",
                "a", "t", "i", "o", "n">>,
     description |-> <<"T", "e", "c", "h", " ", "c", "o", "n", "f", "e", "r", "e", "n", "c", "e", " ", "-", " ",
                      "b", "u", "d", "g", "e", "t", " ", "e", "x", "c", "e", "e", "d", "e",
                      "d">>,
     amount |-> 35000, category |-> <<"t", "r", "a", "v", "e", "l">>, status |-> "rejected",
     expense_date |-> today0 - 5, created_at |-> now0 - 5],
    [title |-> <<"T", "e", "a", "m", " ", "c", "o", "f", "f", "e", "e", " ", "r", "u", "n">>,
     description |-> <<"C", "o", "f", "f", "e", "e", " ", "f", "o", "r", " ", "a", "f", "t", "e", "r", "n", "o",
                      "o", "n", " ", "s", "t", "a", "n", "d", "u", "p">>,
     amount |-> 2450, category |-> <<"m", "e", "a", "l", "s">>, status |-> "approved",
     expense_date |-> today0 - 3, created_at |-> now0 - 3],
    [title |-> <<"A", "W", "S", " ", "m", "o", "n", "t", "h", "l", "y", " ", "b", "i", "l", "l">>,
     description |-> <<"C", "l", "o", "u", "d", " ", "i", "n", "f", "r", "a", "s", "t", "r", "u", "c", "t", "u",
                      "r", "e", " ", "c", "o", "s", "t", "s">>,
     amount |-> 12000, category |-> <<"s", "o", "f", "t", "w", "a", "r", "e">>, status |-> "approved",
     expense_date |-> today0 - 2, created_at |-> now0 - 2],
    [title |-> <<"P", "r", "i", "n", "t", "e", "r", " ", "c", "a", "r", "t", "r", "i", "d", "g", "e">>,
     description |-> <<"R", "e", "p", "l", "a", "c", "e", "m", "e", "n", "t", " ", "t", "o", "n", "e", "r", " ",
                      "-", " ", "w", "r", "o", "n", "g", " ", "m", "o", "d", "e", "l", " ",
                      "o", "r", "d", "e", "r", "e", "d">>,
     amount |-> 6500, category |-> <<"o", "f", "f", "i", "c", "e">>, status |-> "rejected",
     expense_date |-> today0 - 1, created_at |-> now0 - 1],
    [title |-> <<"F", "l", "i", "g", "h", "t", " ", "t", "o", " ", "S", "F">>,
     description |-> <<"U", "p", "c", "o", "m", "i", "n", "g", " ", "w", "e", "s", "t", " ", "c", "o", "a", "s",
                      "t", " ", "t", "e", "a", "m", " ", "s", "y", "n", "c">>,
     amount |-> 52000, category |-> <<"t", "r", "a", "v", "e", "l">>, status |-> "pending",
     expense_date |-> today0, created_at |-> now0],
    [title |-> <<"U", "b", "e", "r", " ", "r", "i", "d", "e", "s">>,
     description |-> <<"V", "a", "r", "i", "o", "u", "s", " ", "r", "i", "d", "e", "-", "s", "h", "a", "r", "e",
                      "s", " ", "f", "o", "r", " ", "m", "e", "e", "t", "i", "n", "g", "s">>,
     amount |-> 4875, category |-> <<"t", "r", "a", "v", "e", "l">>, status |-> "approved",
     expense_date |-> today0, created_at |-> now0],
    [title |-> <<"T", "e", "a", "m", " ", "b", "u", "i", "l", "d", "i", "n", "g", " ", "e", "v", "e", "n",
                "t">>,
     description |-> <<"E", "s", "c", "a", "p", "e", " ", "r", "o", "o", "m", " ", "t", "e", "a", "m", " ", "a",
                      "c", "t", "i", "v", "i", "t", "y">>,
     amount |-> 27500, category |-> <<"o", "t", "h", "e", "r">>, status |-> "approved",
     expense_date |-> today0 - 7, created_at |-> now0 - 7]
    >>

\* add_all into an empty table: the rows get the ids 1, 2, ... in order.
AddAll(rows) ==
    [i \in 1..Len(rows) |->
        [f \in DOMAIN rows[i] \cup {"id"} |-> IF f = "id" THEN i ELSE rows[i][f]]]

\* seed_tasks(db): nothing when the table has rows, nothing when the commit
\* fails.
seed_tasks(rows, now0, ok) ==
    IF Len(rows) > 0 THEN rows
    ELSE IF ok THEN AddAll(SeedTaskRows(now0))
    ELSE rows

\* seed_expenses(db)
seed_expenses(rows, now0, today0, ok) ==
    IF Len(rows) > 0 THEN rows
    ELSE IF ok THEN AddAll(SeedExpenseRows(now0, today0))
    ELSE rows

----------------------------------------------------------------------------
(* Requests of the model.                                                  *)

\* Ids a request names: in a seeded table of tasks, row 1 is completed, row 5
\* pending, row 10 in progress and the last one, 11 is not there; 0 is not
\* greater than 0.
TaskIdInputs == {0, 1, 5, 10, 11}

TaskCreateInputs ==
    {[title |-> <<"W", "r", "i", "t", "e", " ", "s", "p", "e", "c">>],
     [title |-> <<" ", "5", "0", "%", "_", "x", " ">>, description |-> <<" ", "d", " ">>,
      priority |-> "high"],
     [title |-> <<" ", " ">>],
     [title |-> <<"x">>, priority |-> "urgent"]}

TaskUpdateInputs ==
    {[status |-> "completed"],
     [status |-> "pending"],
     [status |-> "in_progress"],
     [title |-> <<" ", "N", "e", "w", " ">>],
     [description |-> <<"d">>, priority |-> "high"],
     [title |-> <<"T">>, description |-> <<>>, status |-> "completed", priority |-> "low",
      created_at |-> 99],
     [status |-> "done"],
     NoFields}

\* Ids a request names: of the seeded expenses row 15 is the last one.
ExpenseIdInputs == {1, 15, 16}

ExpenseCreateInputs ==
    {[title |-> <<"T", "a", "x", "i">>, amount |-> 1250, category |-> <<"t", "r", "a", "v", "e", "l">>,
      expense_date |-> 1],
     [title |-> <<>>, description |-> <<"d">>, amount |-> -5, category |-> <<"B">>,
      expense_date |-> 0],
     [title |-> <<"T">>, category |-> <<"B">>, expense_date |-> 0]}

ExpenseUpdateInputs ==
    {[status |-> "approved"],
     [status |-> "bogus"],
     [amount |-> 1000],
     [category |-> <<"m", "e", "a", "l", "s">>, expense_date |-> 2],
     [title |-> <<"T">>, description |-> <<"d">>, id |-> 99],
     NoFields}

----------------------------------------------------------------------------
(* The service.                                                            *)

\* After startup: the table of the running application is seeded, or empty
\* when seeding failed or every row was deleted since.
Init ==
    /\ scenario \in {1, 2}
    /\ now = 0
    /\ \E seeded \in BOOLEAN :
          /\ tasks = IF scenario = 1 THEN seed_tasks(<<>>, 0, seeded) ELSE <<>>
          /\ expenses = IF scenario = 2 THEN seed_expenses(<<>>, 0, 0, seeded) ELSE <<>>
    /\ req = [op |-> "startup"]
    /\ resp = [code |-> 0]
    /\ sessions = <<>>

CreateTask == \E p \in TaskCreateInputs, ok \in BOOLEAN : create_task(p, ok)

GetTask == \E id \in TaskIdInputs : get_task(id)

UpdateTask ==
    \E id \in TaskIdInputs, p \in TaskUpdateInputs, ok \in BOOLEAN : update_task(id, p, ok)

DeleteTask == \E id \in TaskIdInputs, ok \in BOOLEAN : delete_task(id, ok)

CreateExpense == \E p \in ExpenseCreateInputs, ok \in BOOLEAN : create_expense(p, ok)

GetExpense == \E id \in ExpenseIdInputs : get_expense(id)

UpdateExpense ==
    \E id \in ExpenseIdInputs, p \in ExpenseUpdateInputs, ok \in BOOLEAN :
        update_expense(id, p, ok)

DeleteExpense == \E id \in ExpenseIdInputs, ok \in BOOLEAN : delete_expense(id, ok)

Next ==
    \/ CreateTask
    \/ GetTask
    \/ UpdateTask
    \/ DeleteTask
    \/ CreateExpense
    \/ GetExpense
    \/ UpdateExpense
    \/ DeleteExpense

Spec == Init /\ [][Next]_vars

----------------------------------------------------------------------------
(* The task listing, on the stores that startup and task creation make.    *)

ListStatusInputs == {None, Some("completed")}

ListPriorityInputs == {None, Some("high")}

SearchInputs ==
    {None,
     Some(<<"S", "e", "a", "r", "c", "h">>),
     Some(<<"%">>),
     Some(<<"_">>),
     Some(<<"0", "_">>)}

ListTasks ==
    \E status \in ListStatusInputs, priority \in ListPriorityInputs,
       search \in SearchInputs, page \in 1..MaxPage, limit \in 1..MaxLimit :
        list_tasks(status, priority, search, page, limit)

\* The tasks created between listings: their title holds a literal % and _.
ListCreateInputs ==
    {[title |-> <<" ", "5", "0", "%", "_", "x", " ">>, description |-> <<" ", "d", " ">>,
      priority |-> "high"]}

CreateListedTask == \E p \in ListCreateInputs : create_task(p, TRUE)

ListInit == Init /\ scenario = 1

ListNext ==
    \/ ListTasks
    \/ CreateListedTask

ListSpec == ListInit /\ [][ListNext]_vars

----------------------------------------------------------------------------
(* The task statistics, on stores of every mix of statuses.                *)

\* A store of completed, then in_progress, then pending tasks.
StatStore(completed, in_progress, pending) ==
    [i \in 1..(completed + in_progress + pending) |->
        IF i <= completed
        THEN Task(i, <<"t">>, <<>>, "completed", "medium", 0, Some(0))
        ELSE Task(i, <<"t">>, <<>>,
                  IF i <= completed + in_progress THEN "in_progress" ELSE "pending",
                  "medium", 0, None)]

StatsInit ==
    /\ scenario = 1
    /\ now = 0
    /\ \E completed \in 0..MaxStatTasks, in_progress \in 0..1 :
          \E pending \in 0..(MaxStatTasks - completed - in_progress) :
              tasks = StatStore(completed, in_progress, pending)
    /\ expenses = <<>>
    /\ req = [op |-> "startup"]
    /\ resp = [code |-> 0]
    /\ sessions = <<>>

GetTaskStats == get_task_stats

StatsNext == GetTaskStats

StatsSpec == StatsInit /\ [][StatsNext]_vars

----------------------------------------------------------------------------
(* The expense summary, on every small dataset.                            *)

SummaryCategories == {<<"B">>, <<"a">>, <<"a", "b">>, <<"b">>}

SummaryAmounts == {-5, 99, 1250}

SummaryInit ==
    /\ scenario = 2
    /\ now = 0
    /\ tasks = <<>>
    /\ \E n \in 0..MaxSummaryRows :
          \E category \in [1..n -> SummaryCategories], amount \in [1..n -> SummaryAmounts] :
              expenses = [i \in 1..n |->
                            Expense(i, <<"T">>, <<>>, amount[i], category[i], "pending", 0, 0)]
    /\ req = [op |-> "startup"]
    /\ resp = [code |-> 0]
    /\ sessions = <<>>

GetSummary == get_summary

SummaryNext == GetSummary

SummarySpec == SummaryInit /\ [][SummaryNext]_vars

----------------------------------------------------------------------------
(* Concurrent partial updates.  Handlers run on worker threads, each with  *)
(* a session of its own; a session holds no lock between its read and its *)
(* commit, and the commit of one session is atomic for the others.         *)

\* The requests in flight.
Requests == {1, 2}

\* A request that has not arrived yet.
Idle == [pc |-> "idle"]

\* A request that was answered.
Done(task_id, p, t, committed) ==
    [pc |-> "done", id |-> task_id, payload |-> p, time |-> t, committed |-> committed]

\* The columns the flush writes: those whose value the session changed since
\* it loaded the row.
ChangedColumns(loaded, task) == {f \in DOMAIN task : task[f] # loaded[f]}

\* UPDATE tasks SET <the changed columns> WHERE id = <the id of the row>
UpdateRow(rows, loaded, task) ==
    [i \in 1..Len(rows) |->
        IF rows[i].id = task.id
        THEN [f \in DOMAIN rows[i] |->
                IF f \in ChangedColumns(loaded, task) THEN task[f] ELSE rows[i][f]]
        ELSE rows[i]]

\* PATCH /api/tasks/{task_id}, up to the commit: the session loads the row
\* and the handler assigns the supplied fields to it.
update_task_read(r, task_id, p) ==
    /\ scenario = 1
    /\ sessions[r].pc = "idle"
    /\ req' = [op |-> "update_task", step |-> "read", session |-> r, id |-> task_id,
               payload |-> p]
    /\ now' = now + 1
    /\ UNCHANGED <<scenario, tasks, expenses>>
    /\ IF task_id <= 0 \/ ~ ValidTaskUpdate(p)
       THEN /\ resp' = ValidationError
            /\ sessions' = [sessions EXCEPT ![r] = Done(task_id, p, now, FALSE)]
       ELSE IF Find(tasks, task_id) = 0
       THEN /\ resp' = HTTPException(404, "Task not found")
            /\ sessions' = [sessions EXCEPT ![r] = Done(task_id, p, now, FALSE)]
       ELSE LET loaded == tasks[Find(tasks, task_id)]
            IN  /\ sessions' =
                      [sessions EXCEPT ![r] =
                          [pc |-> "loaded", id |-> task_id, payload |-> p, time |-> now,
                           loaded |-> loaded,
                           task |-> ApplyTaskUpdate(loaded, TaskUpdate(p), now)]]
                /\ UNCHANGED resp

\* PATCH /api/tasks/{task_id}, from the commit on: flush, commit, refresh.
update_task_commit(r, ok) ==
    /\ scenario = 1
    /\ sessions[r].pc = "loaded"
    /\ LET s == sessions[r]
           staged == UpdateRow(tasks, s.loaded, s.task)
       IN  /\ req' = [op |-> "update_task", step |-> "commit", session |-> r, id |-> s.id,
                      payload |-> s.payload, commit |-> CommitOutcome(TRUE, ok)]
           /\ sessions' = [sessions EXCEPT ![r] = Done(s.id, s.payload, s.time, ok)]
           /\ IF ok
              THEN /\ tasks' = Commit(tasks, staged)
                   /\ resp' = [code |-> 200, body |-> staged[Find(staged, s.id)]]
              ELSE /\ tasks' = Rollback(tasks, staged)
                   /\ resp' = HTTPException(500, "Failed to update task")
    /\ UNCHANGED <<scenario, expenses, now>>

\* Row 1 of the seeded table is completed, row 5 pending.
ConcurrentIdInputs == {1, 5}

ConcurrentUpdateInputs ==
    {[status |-> "completed"],
     [status |-> "pending"],
     [title |-> <<"T">>]}

ConcurrentInit ==
    /\ scenario = 1
    /\ now = 0
    /\ tasks = seed_tasks(<<>>, 0, TRUE)
    /\ expenses = <<>>
    /\ req = [op |-> "startup"]
    /\ resp = [code |-> 0]
    /\ sessions = [r \in Requests |-> Idle]

UpdateTaskRead ==
    \E r \in Requests, id \in ConcurrentIdInputs, p \in ConcurrentUpdateInputs :
        update_task_read(r, id, p)

UpdateTaskCommit == \E r \in Requests, ok \in BOOLEAN : update_task_commit(r, ok)

ConcurrentNext ==
    \/ UpdateTaskRead
    \/ UpdateTaskCommit

ConcurrentSpec == ConcurrentInit /\ [][ConcurrentNext]_vars

----------------------------------------------------------------------------
(* Properties.                                                             *)

\* The table of the running application, before and after a step.
Rows == IF scenario = 1 THEN tasks ELSE expenses

RowsAfter == IF scenario = 1 THEN tasks' ELSE expenses'

Range(s) == {s[i] : i \in 1..Len(s)}

\* The time of the last write request: the clock moves on by one after it.
RequestTime == now - 1

\* C1: every stored task has completed_at non-null if and only if its status
\* is completed, from an empty or seeded store, after any creates, partial
\* updates and deletes.
CompletedAtIffCompleted ==
    \A i \in 1..Len(tasks) :
        (tasks[i].completed_at # None) <=> (tasks[i].status = "completed")

\* The seeded task 1, completed at startup, was updated away from completed.
SeededTaskReopened ==
    /\ req.op = "update_task"
    /\ resp.code = 200
    /\ req.id = 1
    /\ tasks # <<>>
    /\ tasks[1].id = 1
    /\ tasks[1].created_at = -7
    /\ tasks[1].status = "in_progress"
    /\ tasks[1].completed_at = None

\* C2: a successful PATCH that supplies status=completed leaves completed_at
\* at the time of that request, and one that supplies another status leaves
\* it null, whatever the task was before.
PatchStatusSetsCompletedAt ==
    (req.op = "update_task" /\ resp.code = 200 /\ Has(req.payload, "status")) =>
        LET task == tasks[Find(tasks, req.id)]
            expected == IF req.payload.status = "completed"
                        THEN Some(RequestTime) ELSE None
        IN  /\ task.completed_at = expected
            /\ resp.body.completed_at = expected

\* The seeded task 1, completed five days before startup, was completed again
\* by the first request and carries that request's time.
CompletedTaskCompletedAgain ==
    /\ req.op = "update_task"
    /\ resp.code = 200
    /\ req.id = 1
    /\ Has(req.payload, "status")
    /\ req.payload.status = "completed"
    /\ now = 1
    /\ Len(tasks) = 10
    /\ tasks[1].completed_at = Some(0)

\* C3: every valid task creation stores and returns a record with status
\* pending, completed_at null, the priority supplied or medium, and an id no
\* other stored task has.
CreateStoresPendingTask ==
    (req.op = "create_task" /\ ValidTaskCreate(req.payload) /\ req.commit = "ok") =>
        /\ resp.code = 201
        /\ resp.body.status = "pending"
        /\ resp.body.completed_at = None
        /\ resp.body.priority =
              IF Has(req.payload, "priority") THEN req.payload.priority ELSE "medium"
        /\ Cardinality({i \in 1..Len(tasks) : tasks[i].id = resp.body.id}) = 1
        /\ tasks[Find(tasks, resp.body.id)] = resp.body

\* A task was created without a priority after seeded row 1 was deleted.
CreatedAfterDelete ==
    /\ req.op = "create_task"
    /\ resp.code = 201
    /\ ~ Has(req.payload, "priority")
    /\ Len(tasks) = 10
    /\ tasks[1].id = 2
    /\ resp.body.id = 11

\* n * 100 / d rounded to the nearest integer on the exact quotient, ties to
\* even (Python's round).
RoundedPercent(n, d) ==
    LET q == (100 * n) \div d
        r == (100 * n) % d
    IN  IF 2 * r > d \/ (2 * r = d /\ q % 2 = 1) THEN q + 1 ELSE q

\* C4: the statistics count the stored tasks by status, total is their number,
\* and completion_rate is 0 for an empty table and round(100*completed/total)
\* otherwise.
StatsCompletionRate ==
    req.op = "get_task_stats" =>
        LET body == resp.body
            n(s) == Cardinality({i \in 1..Len(tasks) : tasks[i].status = s})
        IN  /\ body.completed = n("completed")
            /\ body.in_progress = n("in_progress")
            /\ body.pending = n("pending")
            /\ body.total = Len(tasks)
            /\ body.completion_rate =
                  IF Len(tasks) = 0 THEN 0 ELSE RoundedPercent(n("completed"), Len(tasks))

\* term occurs in text as a substring.
Contains(text, term) ==
    \E k \in 0..(Len(text) - Len(term)) : SubSeq(text, k + 1, k + Len(term)) = term

\* The search clause of the listing: term occurs literally in the title or
\* the description, whatever the case of the letters.
MatchesSearch(task, term) ==
    \/ Contains(Lower(task.title), Lower(term))
    \/ Contains(Lower(task.description), Lower(term))

\* The tasks that match all the filters a listing request supplies.
Matching(q) ==
    {t \in Range(tasks) :
        /\ q.status # None => t.status = q.status[1]
        /\ q.priority # None => t.priority = q.priority[1]
        /\ q.search # None => MatchesSearch(t, q.search[1])}

\* C5: the listing returns the rows at positions (page-1)*limit+1..page*limit
\* of the matching tasks sorted by created_at descending (fewer or none when
\* they run out), and total is the number of matching tasks.
ListReturnsPage ==
    (req.op = "list_tasks" /\ resp.code = 200) =>
        LET m == Matching(req)
            rows == resp.body.tasks
            skip == (req.page - 1) * req.limit
            left == IF Cardinality(m) > skip THEN Cardinality(m) - skip ELSE 0
        IN  /\ resp.body.total = Cardinality(m)
            /\ Len(rows) = IF left < req.limit THEN left ELSE req.limit
            /\ \A j \in 1..Len(rows) :
                  /\ rows[j] \in m
                  /\ Cardinality({t \in m : t.created_at > rows[j].created_at}) < skip + j
                  /\ Cardinality({t \in m : t.created_at >= rows[j].created_at}) >= skip + j
            /\ \A j, k \in 1..Len(rows) : rows[j].id = rows[k].id => j = k

\* C6: a search term that holds % or _ matches a task only when the title or
\* the description holds the term literally.
WildcardsMatchLiterally ==
    (/\ req.op = "list_tasks"
     /\ resp.code = 200
     /\ req.search # None
     /\ \E i \in 1..Len(req.search[1]) : req.search[1][i] \in {"%", "_"}) =>
        \A j \in 1..Len(resp.body.tasks) :
            MatchesSearch(resp.body.tasks[j], req.search[1])

\* The task tracker takes only ids greater than 0.
RejectsId(op, id) == op \in {"delete_task", "get_task"} /\ id <= 0

\* The step is a DELETE of id: with an id the table lacks it answers
\* not-found (or, when positive says that ids must be positive, a validation
\* error for the ids that are not) and changes nothing; with an id the table
\* holds and a store that commits it answers no content and removes that row
\* and no other.  A read-one of an id that a row can have had and the table
\* lacks answers not-found.
DeleteStep(positive) ==
    /\ req'.op \in {"delete_task", "delete_expense"} =>
          IF req'.id \notin Ids(Rows)
          THEN /\ resp'.code = IF positive /\ RejectsId(req'.op, req'.id) THEN 422 ELSE 404
               /\ RowsAfter = Rows
          ELSE req'.commit = "ok" =>
                  /\ resp'.code = 204
                  /\ Len(RowsAfter) = Len(Rows) - 1
                  /\ Range(RowsAfter) = {r \in Range(Rows) : r.id # req'.id}
                  /\ req'.id \notin Ids(RowsAfter)
    /\ (/\ req'.op \in {"get_task", "get_expense"}
        /\ req'.id \notin Ids(Rows)
        /\ ~ RejectsId(req'.op, req'.id)) =>
          resp'.code = 404

\* C7 as stated: a DELETE of any id that is not in the store returns
\* not-found and changes nothing; a DELETE of an existing id removes exactly
\* that row and returns no content, and a second DELETE and a read-one of that
\* id then return not-found.
DeleteMissingIsNotFound == [][DeleteStep(FALSE)]_vars

\* C7: a DELETE of an id that is not in the store changes nothing and returns
\* not-found, or a validation error when the task tracker is given an id that
\* is not greater than 0; a DELETE of an existing id removes exactly that row
\* and returns no content, and a second DELETE and a read-one of that id then
\* return not-found.
DeleteContract == [][DeleteStep(TRUE)]_vars

\* Seeded task 1 was deleted and a second DELETE of it answered not-found.
DeletedTwice ==
    /\ req.op = "delete_task"
    /\ req.id = 1
    /\ resp.code = 404
    /\ Len(tasks) = 9
    /\ tasks[1].id = 2

\* A key's subtotal: the amounts of the rows of that category, added up.
RECURSIVE SumOfRows(_, _)
SumOfRows(rows, idx) ==
    IF idx = {} THEN 0
    ELSE LET i == CHOOSE i \in idx : TRUE
         IN  rows[i].amount + SumOfRows(rows, idx \ {i})

RECURSIVE SumOfValues(_)
SumOfValues(items) ==
    IF items = <<>> THEN 0 ELSE items[1][2] + SumOfValues(Tail(items))

\* C8: the summary's count is the number of stored expenses, by_category has
\* one key per category present, in lexicographic order, each with the sum
\* of that category's amounts, and total is the sum of the by_category
\* values.
SummaryContract ==
    req.op = "get_summary" =>
        LET items == resp.body.by_category
            categories == {expenses[i].category : i \in 1..Len(expenses)}
        IN  /\ resp.body.count = Len(expenses)
            /\ Len(items) = Cardinality(categories)
            /\ {items[i][1] : i \in 1..Len(items)} = categories
            /\ \A i \in 1..Len(items) :
                  items[i][2] =
                      SumOfRows(expenses,
                                {k \in 1..Len(expenses) : expenses[k].category = items[i][1]})
            /\ \A i, j \in 1..Len(items) : i < j => StrLess(items[i][1], items[j][1])
            /\ resp.body.total = SumOfValues(items)

\* A summary of three expenses in two categories stored out of key order.
SummaryOfUnsortedCategories ==
    /\ req.op = "get_summary"
    /\ Len(expenses) = 3
    /\ expenses[1].category = <<"b">>
    /\ expenses[2].category = <<"B">>
    /\ expenses[3].category = <<"b">>
    /\ Len(resp.body.by_category) = 2

\* The answers that carry no detail of the store.
GenericErrors ==
    {"Failed to create task", "Failed to update task", "Failed to delete task",
     "Internal Server Error"}

\* The step is a write request at whose commit the store failed: the answer
\* is a generic internal error and no table changed.
CommitFailureStep ==
    ("commit" \in DOMAIN req' /\ req'.commit = "failed") =>
        /\ resp'.code = 500
        /\ resp'.detail \in GenericErrors
        /\ tasks' = tasks
        /\ expenses' = expenses

\* C9: on every mutation path of both services a storage failure at commit
\* answers with a generic internal error and leaves the persisted store what
\* it was before the request.
CommitFailureRollsBack == [][CommitFailureStep]_vars

\* The store failed at the commit of a DELETE on the seeded expenses.
ExpenseDeleteFailed ==
    /\ req.op = "delete_expense"
    /\ req.commit = "failed"
    /\ Len(expenses) = 15

\* The step is a successful partial update: every other row is as it was, and
\* so is every field of the row that the payload does not supply.
UpdateFrameStep ==
    (req'.op \in {"update_task", "update_expense"} /\ resp'.code = 200) =>
        /\ Len(RowsAfter) = Len(Rows)
        /\ \A i \in 1..Len(Rows) :
              IF Rows[i].id # req'.id
              THEN RowsAfter[i] = Rows[i]
              ELSE \A f \in DOMAIN Rows[i] :
                      (\/ f \in {"id", "created_at"}
                       \/ ~ (\/ Has(req'.payload, f)
                             \/ f = "completed_at" /\ Has(req'.payload, "status"))) =>
                          RowsAfter[i][f] = Rows[i][f]

\* C10: a successful partial update of a record changes only that record and
\* only the fields the payload supplies (and completed_at of a task when
\* status is supplied); id and created_at never change.
UpdateChangesOnlySupplied == [][UpdateFrameStep]_vars

\* An expense was updated by a payload that also carried an id.
ExpenseUpdatedWithId ==
    /\ req.op = "update_expense"
    /\ resp.code = 200
    /\ Has(req.payload, "id")
    /\ Len(expenses) = 15
    /\ expenses[15].id = 15
    /\ expenses[15].title = <<"T">>


\* The fields a partial update of the running application can change.
UpdatableFields ==
    IF scenario = 1
    THEN {"title", "description", "status", "priority"}
    ELSE {"title", "description", "amount", "category", "status", "expense_date"}

\* The step is a partial update whose payload supplies no updatable field: it
\* is answered with a validation error and the table is as it was.
EmptyUpdateStep ==
    (/\ req'.op \in {"update_task", "update_expense"}
     /\ \A f \in UpdatableFields : ~ Has(req'.payload, f)) =>
        /\ resp'.code = ValidationError.code
        /\ RowsAfter = Rows

\* C11: a partial update whose payload supplies no field is rejected with a
\* validation error and leaves the store unchanged, for tasks and for
\* expenses, whether or not the target id exists.
EmptyUpdateIsRejected == [][EmptyUpdateStep]_vars

\* The statuses an expense may have.
ExpenseStatus == {"pending", "approved", "rejected"}

\* Every stored row carries values of its enumerations.
StoredValuesAreEnumerated ==
    /\ \A i \in 1..Len(tasks) :
          /\ tasks[i].status \in TaskStatus
          /\ tasks[i].priority \in TaskPriority
    /\ \A i \in 1..Len(expenses) : expenses[i].status \in ExpenseStatus

\* The payload carries a status or a priority that is no value of its
\* enumeration.
CarriesOtherValue(op, p) ==
    \/ /\ op \in {"create_task", "update_task"}
       /\ \/ Has(p, "priority") /\ p.priority \notin TaskPriority
          \/ op = "update_task" /\ Has(p, "status") /\ p.status \notin TaskStatus
    \/ /\ op = "update_expense"
       /\ Has(p, "status")
       /\ p.status \notin ExpenseStatus

\* The step is a create or a partial update carrying such a value: it is
\* answered with an error and the table is as it was.
OtherValueStep ==
    (/\ req'.op \in {"create_task", "update_task", "update_expense"}
     /\ CarriesOtherValue(req'.op, req'.payload)) =>
        /\ resp'.code >= 400
        /\ RowsAfter = Rows

\* C12: in every reachable state every stored task has its status in
\* {pending, in_progress, completed} and its priority in {low, medium, high},
\* and every stored expense has its status in {pending, approved, rejected};
\* a request carrying any other value is rejected and stores nothing.
OnlyEnumeratedValues == []StoredValuesAreEnumerated /\ [][OtherValueStep]_vars

\* Both requests in flight were partial updates of one task and both
\* committed.
BothCommitted ==
    /\ \A r \in Requests : sessions[r].pc = "done" /\ sessions[r].committed
    /\ sessions[1].id = sessions[2].id

\* C13: concurrent partial updates of one task are last-writer-wins: once
\* both have committed, in whatever order their reads and commits were
\* interleaved, the stored status and completed_at are the ones of the
\* request that committed last, and completed_at is non-null if and only if
\* the status is completed.
LastWriterWins ==
    BothCommitted =>
        LET row == tasks[Find(tasks, req.id)]
            last == sessions[req.session]
        IN  /\ Has(last.payload, "status") =>
                  /\ row.status = last.payload.status
                  /\ row.completed_at =
                        IF last.payload.status = "completed" THEN Some(last.time) ELSE None
            /\ (row.completed_at # None) <=> (row.status = "completed")
============================================================================
